---- MODULE Spec2Model ----
(***************************************************************************)
(* Model of backend/utils.py: the module globals SYSTEM_PROMPT and         *)
(* MODEL_NAME and the function get_agent_response, run by one or more      *)
(* callers.  Python lists are objects on a heap (so that aliasing between  *)
(* the caller's list, current_messages and updated_messages is visible),   *)
(* message contents are sequences of one-character strings, and the        *)
(* completion provider (litellm.completion) is the environment: it either  *)
(* raises or returns a completion object.                                  *)
(***************************************************************************)
EXTENDS Integers, Sequences, FiniteSets, TLC

\* ---- bounds -------------------------------------------------------------
MaxCalls == 2          \* invocations per behaviour of SpecConcurrent (may overlap)
MaxSessionCalls == 3   \* successive invocations per behaviour of SpecSession
MaxLen == 2            \* length of a caller-built input list
MaxReplyLen == 3       \* length of a provider reply content

\* ---- values -------------------------------------------------------------
\* SYSTEM_PROMPT's text (utils.py 20-43), abridged to its first characters.
SystemPromptText == <<"Y", "o", "u">>

\* os.environ.get("MODEL_NAME", "gpt-4o-mini"): the default or an override.
ModelNames == {"gpt-4o-mini", "env-override"}

\* str.strip() without arguments removes whitespace (ASCII part).
Whitespace == {" ", "\t", "\n", "\r"}

\* Messages a caller may put in a list it builds: a system message with a
\* custom prompt, a user message with padded content, a message with a role
\* outside system/user/assistant, and a system message with SYSTEM_PROMPT.
InputMessages ==
  { [role |-> "system", content |-> <<"c", "p">>],
    [role |-> "user", content |-> <<" ", "h", " ">>],
    [role |-> "narrator", content |-> <<"h">>],
    [role |-> "system", content |-> SystemPromptText] }

RECURSIVE SeqsUpTo(_, _)
SeqsUpTo(S, n) ==
  IF n = 0 THEN {<<>>}
  ELSE LET shorter == SeqsUpTo(S, n - 1)
       IN shorter \cup {Append(s, x) : s \in {t \in shorter : Len(t) = n - 1}, x \in S}

InputLists == SeqsUpTo(InputMessages, MaxLen)

\* Messages appended by the caller between two calls of a session.
Extras == {<<m>> : m \in InputMessages}

\* Provider reply contents.
PaddedReply == <<" ", "a", " ", "a", "\n">>
Replies == SeqsUpTo({" ", "a"}, MaxReplyLen) \cup {<<"\n", "a", "\t">>, PaddedReply}

StrChoice(s) == [kind |-> "str", content |-> s]
NullChoice == [kind |-> "null", content |-> <<>>]
OtherChoice == StrChoice(<<"b">>)
Choices == {StrChoice(s) : s \in Replies} \cup {NullChoice}

Responses ==
  {[choices |-> <<>>]}
  \cup {[choices |-> <<c>>] : c \in Choices}
  \cup {[choices |-> <<c, OtherChoice>>] : c \in {StrChoice(PaddedReply), NullChoice}}

\* Smaller input sets for the specifications with several invocations.
SessionResponses ==
  {[choices |-> <<StrChoice(s)>>] : s \in {<<>>, <<"a">>, <<" ", "a">>}}

ConcurrentInputs ==
  { <<>>,
    <<[role |-> "user", content |-> <<" ", "h", " ">>]>>,
    <<[role |-> "system", content |-> <<"c", "p">>], [role |-> "narrator", content |-> <<"h">>]>> }

ConcurrentResponses ==
  { [choices |-> <<>>],
    [choices |-> <<StrChoice(<<" ", "a">>)>>],
    [choices |-> <<OtherChoice, StrChoice(<<"a">>)>>] }

ProviderErrors == {"APIConnectionError", "AuthenticationError"}

NoRef == <<0, "none">>
NoCompletion == [choices |-> <<>>]
NoOutcome == [kind |-> "none", error |-> "none", response |-> NoCompletion]

\* ---- state --------------------------------------------------------------
VARIABLES SYSTEM_PROMPT, MODEL_NAME, heap, calls, obs

vars == <<SYSTEM_PROMPT, MODEL_NAME, heap, calls, obs>>

\* ---- the code's expressions ---------------------------------------------
\* Variants of the code's expressions, each with one slip, used to show that
\* the properties below depend on what the code does.
NeedsSystemPromptByContent(msgs) == msgs = <<>> \/ msgs[1].content # SYSTEM_PROMPT
NeedsSystemPromptIfEmpty(msgs) == msgs = <<>>
NeedsSystemPromptAlways(msgs) == TRUE
SystemMessageAsUser(prompt) == [role |-> "user", content |-> prompt]
SystemMessageLast(h, id, ref, prompt) ==
  [heap |-> h @@ (id :> (h[ref] \o <<[role |-> "system", content |-> prompt]>>)), ref |-> id]
InsertInPlace(h, id, ref, prompt) ==
  [heap |-> [h EXCEPT ![ref] = <<[role |-> "system", content |-> prompt]>> \o @], ref |-> ref]
ReplyFirst(h, id, ref, msg) ==
  [heap |-> h @@ (id :> (<<msg>> \o h[ref])), ref |-> id]
AppendInPlace(h, id, ref, msg) ==
  [heap |-> [h EXCEPT ![ref] = @ \o <<msg>>], ref |-> ref]
RetryCompletion(f, err) == [f EXCEPT !.pc = "completion"]

\* utils.py 69: not messages or messages[0]["role"] != "system"
NeedsSystemPrompt(msgs) == msgs = <<>> \/ msgs[1].role # "system"

\* utils.py 70: {"role": "system", "content": SYSTEM_PROMPT}
SystemMessage(prompt) == [role |-> "system", content |-> prompt]

\* utils.py 70: [system message] + messages, a new list
PrependNew(h, id, ref, prompt) ==
  [heap |-> h @@ (id :> (<<SystemMessage(prompt)>> \o h[ref])), ref |-> id]

\* utils.py 69-72: current_messages
NormalizeResult(h, id, ref, prompt) ==
  IF NeedsSystemPrompt(h[ref]) THEN PrependNew(h, id, ref, prompt)
  ELSE [heap |-> h, ref |-> ref]

RECURSIVE lstrip(_)
lstrip(s) ==
  IF s # <<>> /\ Head(s) \in Whitespace THEN lstrip(Tail(s)) ELSE s

RECURSIVE rstrip(_)
rstrip(s) ==
  IF s # <<>> /\ s[Len(s)] \in Whitespace THEN rstrip(SubSeq(s, 1, Len(s) - 1)) ELSE s

lstripOnly(s) == lstrip(s)

\* utils.py 81: .strip()
strip(s) == rstrip(lstrip(s))

\* utils.py 80: completion["choices"][0]
FirstChoice(completion) == completion.choices[1]

\* utils.py 85: {"role": "assistant", "content": assistant_reply_content}
AssistantMessage(content) == [role |-> "assistant", content |-> content]

\* utils.py 85: current_messages + [assistant message], a new list
ConcatNew(h, id, ref, msg) ==
  [heap |-> h @@ (id :> (h[ref] \o <<msg>>)), ref |-> id]

\* An exception leaves get_agent_response: nothing in 74-82 catches it.
Raise(f, err) == [f EXCEPT !.pc = "raised", !.raised = err]

\* utils.py 79-82: assistant_reply_content, or the exception the expression raises
ExtractReply(f) ==
  IF f.completion.choices = <<>> THEN Raise(f, "IndexError")
  ELSE IF FirstChoice(f.completion).kind = "null" THEN Raise(f, "AttributeError")
  ELSE [f EXCEPT !.pc = "append",
                 !.assistant_reply_content = strip(FirstChoice(f.completion).content)]

\* ---- frames -------------------------------------------------------------
CallIds == 1..Len(calls)

NewFrame(ref) ==
  [pc |-> "normalize", messages |-> ref, current_messages |-> NoRef,
   completion |-> NoCompletion, assistant_reply_content |-> <<>>,
   updated_messages |-> NoRef, raised |-> "none"]

NewObs(h, ref, parent) ==
  [arg |-> h[ref], parent |-> parent, preObjects |-> DOMAIN h,
   inFlight |-> {j \in CallIds : calls[j].pc \notin {"returned", "raised"}},
   prepended |-> FALSE, requests |-> <<>>, outcome |-> NoOutcome]

Sequential == \A j \in CallIds : calls[j].pc = "returned"

\* Lists a caller holds: the ones it passed in and the ones returned to it.
ReturnedRefs == {calls[j].updated_messages : j \in {i \in CallIds : calls[i].pc = "returned"}}
CallerRefs == {calls[j].messages : j \in CallIds} \cup ReturnedRefs

Producer(ref) ==
  LET js == {j \in CallIds : calls[j].pc = "returned" /\ calls[j].updated_messages = ref}
  IN IF js = {} THEN 0 ELSE CHOOSE j \in js : TRUE

\* ---- actions ------------------------------------------------------------
Init ==
  /\ SYSTEM_PROMPT = SystemPromptText
  /\ MODEL_NAME \in ModelNames
  /\ heap = [x \in {} |-> <<>>]
  /\ calls = <<>>
  /\ obs = <<>>

\* A caller builds a list and calls get_agent_response(messages).
InvokeFresh(limit, msgs) ==
  /\ Len(calls) < limit
  /\ LET k == Len(calls) + 1
         id == <<k, "arg">>
         h == heap @@ (id :> msgs)
     IN /\ heap' = h
        /\ calls' = Append(calls, NewFrame(id))
        /\ obs' = Append(obs, NewObs(h, id, 0))
  /\ UNCHANGED <<SYSTEM_PROMPT, MODEL_NAME>>

\* A caller passes a list it already holds: one it passed before, or one
\* returned by an earlier call (a session continued with nothing appended).
InvokeAlias(limit, ref) ==
  /\ Len(calls) < limit
  /\ ref \in CallerRefs
  /\ calls' = Append(calls, NewFrame(ref))
  /\ obs' = Append(obs, NewObs(heap, ref, Producer(ref)))
  /\ UNCHANGED <<SYSTEM_PROMPT, MODEL_NAME, heap>>

\* A caller continues a session: the previous call's output plus new messages.
InvokeContinue(limit, extra) ==
  /\ calls # <<>>
  /\ Len(calls) < limit
  /\ calls[Len(calls)].pc = "returned"
  /\ LET k == Len(calls) + 1
         id == <<k, "arg">>
         h == heap @@ (id :> (heap[calls[k - 1].updated_messages] \o extra))
     IN /\ heap' = h
        /\ calls' = Append(calls, NewFrame(id))
        /\ obs' = Append(obs, NewObs(h, id, k - 1))
  /\ UNCHANGED <<SYSTEM_PROMPT, MODEL_NAME>>

\* utils.py 68-72
Normalize(k) ==
  /\ calls[k].pc = "normalize"
  /\ LET r == NormalizeResult(heap, <<k, "cur">>, calls[k].messages, SYSTEM_PROMPT)
     IN /\ heap' = r.heap
        /\ calls' = [calls EXCEPT ![k].current_messages = r.ref, ![k].pc = "completion"]
        /\ obs' = [obs EXCEPT ![k].prepended = (r.ref # calls[k].messages)]
  /\ UNCHANGED <<SYSTEM_PROMPT, MODEL_NAME>>

\* utils.py 74-77: the request leaves for the provider
CompletionCall(k) ==
  /\ calls[k].pc = "completion"
  /\ calls' = [calls EXCEPT ![k].pc = "awaiting"]
  /\ obs' = [obs EXCEPT ![k].requests =
               Append(@, [model |-> MODEL_NAME, messages |-> heap[calls[k].current_messages]])]
  /\ UNCHANGED <<SYSTEM_PROMPT, MODEL_NAME, heap>>

\* utils.py 74: litellm.completion returns
ProviderReturn(k, resp) ==
  /\ calls[k].pc = "awaiting"
  /\ calls' = [calls EXCEPT ![k].completion = resp, ![k].pc = "extract"]
  /\ obs' = [obs EXCEPT ![k].outcome = [kind |-> "ok", error |-> "none", response |-> resp]]
  /\ UNCHANGED <<SYSTEM_PROMPT, MODEL_NAME, heap>>

\* utils.py 74: litellm.completion raises
ProviderRaise(k, err) ==
  /\ calls[k].pc = "awaiting"
  /\ calls' = [calls EXCEPT ![k] = Raise(@, err)]
  /\ obs' = [obs EXCEPT ![k].outcome = [kind |-> "error", error |-> err, response |-> NoCompletion]]
  /\ UNCHANGED <<SYSTEM_PROMPT, MODEL_NAME, heap>>

\* utils.py 79-82
Extract(k) ==
  /\ calls[k].pc = "extract"
  /\ calls' = [calls EXCEPT ![k] = ExtractReply(@)]
  /\ UNCHANGED <<SYSTEM_PROMPT, MODEL_NAME, heap, obs>>

\* utils.py 85-86
AppendAndReturn(k) ==
  /\ calls[k].pc = "append"
  /\ LET r == ConcatNew(heap, <<k, "upd">>, calls[k].current_messages,
                        AssistantMessage(calls[k].assistant_reply_content))
     IN /\ heap' = r.heap
        /\ calls' = [calls EXCEPT ![k].updated_messages = r.ref, ![k].pc = "returned"]
  /\ UNCHANGED <<SYSTEM_PROMPT, MODEL_NAME, obs>>

\* One invocation, over every input list and provider response.
Next ==
  \/ \E msgs \in InputLists : InvokeFresh(1, msgs)
  \/ \E k \in CallIds : Normalize(k)
  \/ \E k \in CallIds : CompletionCall(k)
  \/ \E k \in CallIds, resp \in Responses : ProviderReturn(k, resp)
  \/ \E k \in CallIds, err \in ProviderErrors : ProviderRaise(k, err)
  \/ \E k \in CallIds : Extract(k)
  \/ \E k \in CallIds : AppendAndReturn(k)

Spec == Init /\ [][Next]_vars

\* Several invocations whose steps interleave; callers may share lists.
NextConcurrent ==
  \/ \E msgs \in ConcurrentInputs : InvokeFresh(MaxCalls, msgs)
  \/ \E ref \in CallerRefs : InvokeAlias(MaxCalls, ref)
  \/ \E k \in CallIds : Normalize(k)
  \/ \E k \in CallIds : CompletionCall(k)
  \/ \E k \in CallIds, resp \in ConcurrentResponses : ProviderReturn(k, resp)
  \/ \E k \in CallIds, err \in ProviderErrors : ProviderRaise(k, err)
  \/ \E k \in CallIds : Extract(k)
  \/ \E k \in CallIds : AppendAndReturn(k)

SpecConcurrent == Init /\ [][NextConcurrent]_vars

\* One session: calls follow one another, each given the previous output.
NextSession ==
  \/ \E msgs \in InputLists : InvokeFresh(1, msgs)
  \/ \E ref \in ReturnedRefs :
       Sequential /\ ref = calls[Len(calls)].updated_messages
                  /\ InvokeAlias(MaxSessionCalls, ref)
  \/ \E extra \in Extras : InvokeContinue(MaxSessionCalls, extra)
  \/ \E k \in CallIds : Normalize(k)
  \/ \E k \in CallIds : CompletionCall(k)
  \/ \E k \in CallIds, resp \in SessionResponses : ProviderReturn(k, resp)
  \/ \E k \in CallIds : Extract(k)
  \/ \E k \in CallIds : AppendAndReturn(k)

SpecSession == Init /\ [][NextSession]_vars

\* ---- observations the properties are stated over ------------------------
Requested(k) == obs[k].requests # <<>>
Sent(k) == obs[k].requests[1].messages
Returned(k) == calls[k].pc = "returned"
Output(k) == heap[calls[k].updated_messages]
StartsWithSystem(msgs) == msgs # <<>> /\ msgs[1].role = "system"
NoOutput(k) == calls[k].updated_messages = NoRef /\ <<k, "upd">> \notin DOMAIN heap

\* r is s without its leading and trailing whitespace, and nothing else changed.
IsStripOf(r, s) ==
  \E i \in 0..Len(s), j \in 0..Len(s) :
    /\ i + j <= Len(s)
    /\ r = SubSeq(s, i + 1, Len(s) - j)
    /\ \A p \in 1..i : s[p] \in Whitespace
    /\ \A p \in (Len(s) - j + 1)..Len(s) : s[p] \in Whitespace
    /\ r = <<>> \/ (r[1] \notin Whitespace /\ r[Len(r)] \notin Whitespace)

\* C1: when the input is empty or its first message's role is not system,
\* every history sent to the provider is one message {system, SYSTEM_PROMPT}
\* followed by the input messages, in order and unchanged.
C1_DefaultPrefixing ==
  \A k \in CallIds :
    (Requested(k) /\ ~StartsWithSystem(obs[k].arg)) =>
      \A i \in 1..Len(obs[k].requests) :
        obs[k].requests[i].messages =
          <<[role |-> "system", content |-> SYSTEM_PROMPT]>> \o obs[k].arg

C1_Witness ==
  \E k \in CallIds :
    /\ Requested(k)
    /\ Len(obs[k].arg) = 2
    /\ obs[k].arg[1].role = "narrator"
    /\ obs[k].arg[2].role = "user"

\* C2: when the input's first message has role system, the history sent to
\* the provider is the input itself, element for element, with the caller's
\* first content and nothing added.
C2_IdempotentPrefixing ==
  \A k \in CallIds :
    (Requested(k) /\ StartsWithSystem(obs[k].arg)) =>
      /\ Sent(k) = obs[k].arg
      /\ Sent(k)[1].content = obs[k].arg[1].content
      /\ ~obs[k].prepended
      /\ calls[k].current_messages = calls[k].messages

C2_Witness ==
  \E k \in CallIds :
    /\ Requested(k)
    /\ Len(obs[k].arg) = 2
    /\ obs[k].arg[1] = [role |-> "system", content |-> <<"c", "p">>]
    /\ obs[k].arg[1].content # SYSTEM_PROMPT

\* C3: a returned sequence is the history sent to the provider followed by
\* exactly one message, whose role is assistant.
C3_SingleAppend ==
  \A k \in CallIds :
    Returned(k) =>
      /\ Len(Output(k)) = Len(Sent(k)) + 1
      /\ SubSeq(Output(k), 1, Len(Sent(k))) = Sent(k)
      /\ Output(k)[Len(Output(k))].role = "assistant"

C3_Witness ==
  \E k \in CallIds : Returned(k) /\ Len(Sent(k)) = 3 /\ Len(Output(k)) = 4

\* C4: the appended assistant content is the content of the provider's first
\* choice without its leading and trailing whitespace, otherwise unchanged;
\* later choices play no part.
C4_ContentPassthrough ==
  \A k \in CallIds :
    Returned(k) =>
      /\ obs[k].outcome.kind = "ok"
      /\ IsStripOf(Output(k)[Len(Output(k))].content,
                   obs[k].outcome.response.choices[1].content)

C4_Witness ==
  \E k \in CallIds :
    /\ Returned(k)
    /\ Len(obs[k].outcome.response.choices) = 2
    /\ obs[k].outcome.response.choices[1].content = PaddedReply
    /\ Output(k)[Len(Output(k))].content = <<"a", " ", "a">>

\* C5: when the provider call raises, or the response has no choices or no
\* content, the invocation ends in that error with no output, and the
\* provider is called once only.
C5_FailurePropagates ==
  \A k \in CallIds :
    /\ Len(obs[k].requests) <= 1
    /\ obs[k].outcome.kind = "error" =>
         /\ calls[k].pc = "raised"
         /\ calls[k].raised = obs[k].outcome.error
         /\ NoOutput(k)
    /\ (obs[k].outcome.kind = "ok" /\ calls[k].pc # "extract"
          /\ obs[k].outcome.response.choices = <<>>) =>
         /\ calls[k].pc = "raised"
         /\ calls[k].raised = "IndexError"
         /\ NoOutput(k)
    /\ (obs[k].outcome.kind = "ok" /\ calls[k].pc # "extract"
          /\ obs[k].outcome.response.choices # <<>>
          /\ obs[k].outcome.response.choices[1].kind = "null") =>
         /\ calls[k].pc = "raised"
         /\ calls[k].raised = "AttributeError"
         /\ NoOutput(k)
    /\ calls[k].pc = "raised" => NoOutput(k)

C5_Witness ==
  \E k \in CallIds :
    /\ calls[k].pc = "raised"
    /\ calls[k].raised = "AuthenticationError"
    /\ obs[k].outcome.kind = "error"
    /\ Len(obs[k].requests) = 1

\* C6 as claimed: a returned sequence has exactly one more message than the
\* sequence passed in.
C6_Original ==
  \A k \in CallIds : Returned(k) => Len(Output(k)) = Len(obs[k].arg) + 1

\* C6 amended: a returned sequence has one more message than the input when
\* the input starts with a system message, and two more otherwise (the system
\* message in front, the assistant reply at the end); the input messages sit
\* in between, unchanged.
C6_ExtendedByOneOrTwo ==
  \A k \in CallIds :
    Returned(k) =>
      LET d == IF StartsWithSystem(obs[k].arg) THEN 0 ELSE 1
      IN /\ Len(Output(k)) = Len(obs[k].arg) + d + 1
         /\ SubSeq(Output(k), d + 1, d + Len(obs[k].arg)) = obs[k].arg

C6_Witness ==
  \E k \in CallIds :
    /\ Returned(k)
    /\ Len(obs[k].arg) = 1
    /\ obs[k].arg[1].role = "user"
    /\ Len(Output(k)) = 3

\* C7 as claimed: the first message of every history sent to the provider is
\* {system, SYSTEM_PROMPT}.
C7_Original ==
  \A k \in CallIds :
    Requested(k) => Sent(k)[1] = [role |-> "system", content |-> SYSTEM_PROMPT]

\* C7 amended: the first message of every history sent to the provider has
\* role system; its content is SYSTEM_PROMPT when the input did not start with
\* a system message, and the caller's own first message otherwise.
C7_SystemRoleFirst ==
  \A k \in CallIds :
    Requested(k) =>
      /\ Sent(k)[1].role = "system"
      /\ ~StartsWithSystem(obs[k].arg) => Sent(k)[1].content = SYSTEM_PROMPT
      /\ StartsWithSystem(obs[k].arg) => Sent(k)[1] = obs[k].arg[1]

C7_Witness ==
  \E k \in CallIds :
    /\ Requested(k)
    /\ obs[k].arg # <<>>
    /\ obs[k].arg[1].role = "user"
    /\ Sent(k)[1].content = SYSTEM_PROMPT

\* What one invocation running alone makes of an input and a provider outcome.
RunAlone(arg, outcome) ==
  IF outcome.kind = "error" THEN [status |-> "raised", error |-> outcome.error, value |-> <<>>]
  ELSE IF outcome.response.choices = <<>>
    THEN [status |-> "raised", error |-> "IndexError", value |-> <<>>]
  ELSE IF outcome.response.choices[1].kind = "null"
    THEN [status |-> "raised", error |-> "AttributeError", value |-> <<>>]
  ELSE [status |-> "returned", error |-> "none",
        value |-> (IF StartsWithSystem(arg) THEN arg
                   ELSE <<[role |-> "system", content |-> SystemPromptText]>> \o arg)
                  \o <<[role |-> "assistant",
                        content |-> strip(outcome.response.choices[1].content)]>>]

Result(k) ==
  [status |-> calls[k].pc, error |-> calls[k].raised,
   value |-> IF Returned(k) THEN Output(k) ELSE <<>>]

Independent ==
  \A k \in CallIds :
    /\ calls[k].pc \in {"returned", "raised"} => Result(k) = RunAlone(obs[k].arg, obs[k].outcome)
    /\ Requested(k) =>
         Sent(k) = (IF StartsWithSystem(obs[k].arg) THEN obs[k].arg
                    ELSE <<[role |-> "system", content |-> SystemPromptText]>> \o obs[k].arg)

GlobalsNeverWritten ==
  [][SYSTEM_PROMPT' = SYSTEM_PROMPT /\ MODEL_NAME' = MODEL_NAME]_vars

\* C8: under every interleaving, each invocation's request and result are
\* what the invocation alone makes of its own input and its own provider
\* outcome, and no step writes SYSTEM_PROMPT or MODEL_NAME.
C8_Independent == []Independent /\ GlobalsNeverWritten

C8_Witness ==
  \E j \in CallIds, k \in CallIds :
    /\ j \in obs[k].inFlight
    /\ calls[j].messages = calls[k].messages
    /\ Returned(j) /\ Returned(k)
    /\ StartsWithSystem(obs[k].arg)
    /\ Output(j) # Output(k)

\* C9: in a session, every history sent and returned starts with a system
\* message, only the first call prepends one, and from the first output on
\* the message at index 0 stays the same.
C9_SessionPrefixStable ==
  /\ Cardinality({k \in CallIds : obs[k].prepended}) <= 1
  /\ \A k \in CallIds :
       /\ Requested(k) => Sent(k)[1].role = "system"
       /\ Returned(k) => Output(k)[1].role = "system"
       /\ obs[k].parent # 0 =>
            /\ ~obs[k].prepended
            /\ obs[k].arg[1] = Output(obs[k].parent)[1]
            /\ Requested(k) => Sent(k) = obs[k].arg
            /\ Returned(k) =>
                 /\ Output(k)[1] = Output(1)[1]
                 /\ Len(Output(k)) = Len(obs[k].arg) + 1

C9_Witness ==
  /\ Len(calls) = 3
  /\ \A k \in CallIds : Returned(k)
  /\ obs[1].prepended
  /\ obs[2].parent = 1 /\ obs[3].parent = 2
  /\ obs[2].arg = Output(1)
  /\ \E i \in 2..Len(obs[3].arg) : obs[3].arg[i].role = "system"

\* C10: once an invocation has returned or raised, the caller's list holds
\* the messages it held at the call, and a returned list is an object that
\* did not exist before the call.
C10_InputNotMutated ==
  \A k \in CallIds :
    /\ calls[k].pc \in {"returned", "raised"} => heap[calls[k].messages] = obs[k].arg
    /\ Returned(k) =>
         /\ calls[k].updated_messages # calls[k].messages
         /\ calls[k].updated_messages \notin obs[k].preObjects

C10_Witness ==
  \E k \in CallIds :
    /\ Returned(k)
    /\ calls[k].current_messages = calls[k].messages
    /\ Len(obs[k].arg) = 2

====
